---- MODULE Spec2Model ----
(***************************************************************************)
(* Model of src/CryptoDatabase.py: class CryptoDatabase, a facade over an  *)
(* SQLite file with the tables "Blockchain" and "MemeCoin".                *)
(*                                                                         *)
(* A column value is an optional: NULL is the empty tuple, a value v is    *)
(* the one-element tuple <<v>>.  A table is a function from its primary    *)
(* key (the bare value) to the record of its other columns.                *)
(***************************************************************************)
EXTENDS Integers, Sequences, FiniteSets, TLC

VARIABLES tablesExist, Blockchain, MemeCoin, clock, pre, last

vars == <<tablesExist, Blockchain, MemeCoin, clock, pre, last>>

\* ---------------------------------------------------------------- bounds
MaxBatch == 2
MaxClock == 3

\* ------------------------------------------------------- values and rows
NULL == <<>>

Some(v) == <<v>>

IsNull(x) == x = NULL

\* None passed where a str / dict / DataFrame is expected
PyNone == "py:None"

\* SQLite connections start with foreign-key enforcement off unless the
\* connection runs PRAGMA foreign_keys = ON
SQLITE_DEFAULT_FOREIGN_KEYS == FALSE

EmptyTable == [k \in {} |-> NULL]

\* one record of the input DataFrame
DfRow(c, n, s, p, m, v, b, bn) ==
    [coin_id |-> c, nombre |-> n, simbolo |-> s, precio_usd |-> p,
     market_cap_usd |-> m, volumen_24h |-> v, blockchain_id |-> b,
     blockchain_nombre |-> bn]

\* the records a batch is drawn from: valid ones (three coins, two
\* ecosystems, differing names, symbols, metrics and ecosystem names,
\* absent metrics), ones with an absent key column and ones with an absent
\* NOT NULL column
DfRows ==
    { DfRow(Some("pepe"), Some("Pepe"), Some("PEPE"), Some(1), Some(30), Some(5),
            Some("ethereum"), Some("Ethereum")),
      DfRow(Some("pepe"), Some("Pepe2"), Some("PEPE2"), Some(2), Some(12), Some(6),
            Some("solana"), Some("Solana")),
      DfRow(Some("bonk"), Some("Bonk"), Some("BONK"), NULL, NULL, NULL,
            Some("ethereum"), Some("Ether2")),
      DfRow(Some("wif"), Some("dogwifhat"), Some("WIF"), Some(2), Some(12), Some(5),
            Some("solana"), Some("Solana")),
      DfRow(NULL, Some("Shiba Inu"), Some("SHIB"), Some(1), Some(30), Some(5),
            Some("ethereum"), Some("Ethereum")),
      DfRow(Some("bonk"), Some("Bonk"), Some("BONK"), Some(2), Some(12), Some(5),
            NULL, Some("Solana")),
      DfRow(Some("bonk"), Some("Bonk"), NULL, Some(2), Some(12), Some(5),
            Some("solana"), Some("Solana")),
      DfRow(Some("pepe"), Some("Pepe"), Some("PEPE"), Some(1), Some(30), Some(5),
            Some("ethereum"), NULL) }

SeqsUpTo(S, n) == UNION { [1..k -> S] : k \in 0..n }

\* a DataFrame: has_key_columns is FALSE when 'coin_id' / 'blockchain_id'
\* are not columns of it (or the argument is no DataFrame at all)
DataFrames ==
    { [has_key_columns |-> TRUE, rows |-> b] : b \in SeqsUpTo(DfRows, MaxBatch) }
    \cup { [has_key_columns |-> FALSE, rows |-> <<>>] }

\* ------------------------------------------------------------ exceptions
NoError == "none"

\* the classes of exception the bodies can raise
Raisable ==
    {"OperationalError", "IntegrityError", "DatabaseError", "TypeError", "KeyError"}

\* faulty variant: `except sqlite3.Error as errores`
ExceptSqliteError(e) == e \in {"OperationalError", "IntegrityError"}

\* `except Exception as errores`
ExceptException(e) == e \in Raisable

\* what leaves a try / except Exception / finally statement
Propagates(e) == e # NoError /\ ~ExceptException(e)

\* faulty variant: df.dropna() without subset drops a record with any absent column
RECURSIVE dropna_any_column(_)
dropna_any_column(rows) ==
    IF rows = <<>> THEN <<>>
    ELSE IF \E c \in DOMAIN Head(rows) : IsNull(Head(rows)[c])
         THEN dropna_any_column(Tail(rows))
         ELSE <<Head(rows)>> \o dropna_any_column(Tail(rows))

\* df.dropna(subset=['coin_id', 'blockchain_id'])
RECURSIVE dropna(_)
dropna(rows) ==
    IF rows = <<>> THEN <<>>
    ELSE IF IsNull(Head(rows).coin_id) \/ IsNull(Head(rows).blockchain_id)
         THEN dropna(Tail(rows))
         ELSE <<Head(rows)>> \o dropna(Tail(rows))

\* ------------------------------------------------------- SQL statements
\* faulty variant: ON CONFLICT(blockchain_id) DO UPDATE SET nombre_blockchain =
\* EXCLUDED.nombre_blockchain
sql_blockchain_overwrite(B, row) ==
    IF IsNull(row.blockchain_nombre)
    THEN [error |-> "IntegrityError", Blockchain |-> B]
    ELSE [error |-> NoError,
          Blockchain |->
              [k \in DOMAIN B \cup {row.blockchain_id[1]} |->
                  IF k # row.blockchain_id[1] THEN B[k]
                  ELSE IF k \in DOMAIN B
                  THEN [B[k] EXCEPT !.nombre_blockchain = row.blockchain_nombre]
                  ELSE [nombre_blockchain |-> row.blockchain_nombre,
                        simbolo_nativo |-> NULL]]]

\* INSERT INTO Blockchain (blockchain_id, nombre_blockchain) VALUES (?, ?)
\* ON CONFLICT(blockchain_id) DO NOTHING
\* NOT NULL is checked before the uniqueness conflict is resolved.
sql_blockchain(B, row) ==
    IF IsNull(row.blockchain_nombre)
    THEN [error |-> "IntegrityError", Blockchain |-> B]
    ELSE IF row.blockchain_id[1] \in DOMAIN B
    THEN [error |-> NoError, Blockchain |-> B]
    ELSE [error |-> NoError,
          Blockchain |->
              [k \in DOMAIN B \cup {row.blockchain_id[1]} |->
                  IF k \in DOMAIN B THEN B[k]
                  ELSE [nombre_blockchain |-> row.blockchain_nombre,
                        simbolo_nativo |-> NULL]]]

\* faulty variant: the conflict clause also sets nombre and simbolo
OnConflictUpdate_all_columns(old, row, now) ==
    [old EXCEPT !.nombre = row.nombre,
                !.simbolo = row.simbolo,
                !.precio_usd = row.precio_usd,
                !.market_cap_usd = row.market_cap_usd,
                !.volumen_24h = row.volumen_24h,
                !.blockchain_origen_id = row.blockchain_id,
                !.ultima_actualizacion = Some(now)]

\* faulty variant: SET precio_usd = market_cap_usd, the stored row's own column in
\* place of EXCLUDED.precio_usd
OnConflictUpdate_own_column(old, row, now) ==
    [old EXCEPT !.precio_usd = old.market_cap_usd,
                !.market_cap_usd = row.market_cap_usd,
                !.volumen_24h = row.volumen_24h,
                !.blockchain_origen_id = row.blockchain_id,
                !.ultima_actualizacion = Some(now)]

\* ON CONFLICT(coin_id) DO UPDATE SET the five EXCLUDED columns
OnConflictUpdate(old, row, now) ==
    [old EXCEPT !.precio_usd = row.precio_usd,
                !.market_cap_usd = row.market_cap_usd,
                !.volumen_24h = row.volumen_24h,
                !.blockchain_origen_id = row.blockchain_id,
                !.ultima_actualizacion = Some(now)]

\* faulty variant: the statement stamps ultima_actualizacion on every stored row
sql_memecoin_stamp_all(B, M, row, now, foreign_keys) ==
    IF IsNull(row.nombre) \/ IsNull(row.simbolo)
    THEN [error |-> "IntegrityError", MemeCoin |-> M]
    ELSE IF foreign_keys /\ ~IsNull(row.blockchain_id)
            /\ row.blockchain_id[1] \notin DOMAIN B
    THEN [error |-> "IntegrityError", MemeCoin |-> M]
    ELSE [error |-> NoError,
          MemeCoin |->
              [k \in DOMAIN M \cup {row.coin_id[1]} |->
                  IF k # row.coin_id[1]
                  THEN [M[k] EXCEPT !.ultima_actualizacion = Some(now)]
                  ELSE IF k \in DOMAIN M
                  THEN [M[k] EXCEPT !.precio_usd = row.precio_usd,
                                    !.market_cap_usd = row.market_cap_usd,
                                    !.volumen_24h = row.volumen_24h,
                                    !.blockchain_origen_id = row.blockchain_id,
                                    !.ultima_actualizacion = Some(now)]
                  ELSE [nombre |-> row.nombre, simbolo |-> row.simbolo,
                        precio_usd |-> row.precio_usd,
                        market_cap_usd |-> row.market_cap_usd,
                        volumen_24h |-> row.volumen_24h,
                        ultima_actualizacion |-> Some(now),
                        blockchain_origen_id |-> row.blockchain_id]]]

\* INSERT INTO MemeCoin (...) VALUES (?, ?, ?, ?, ?, ?, ?, ?)
\* ON CONFLICT(coin_id) DO UPDATE SET ...
\* foreign_keys: whether the connection enforces fk_blockchain.
sql_memecoin(B, M, row, now, foreign_keys) ==
    IF IsNull(row.nombre) \/ IsNull(row.simbolo)
    THEN [error |-> "IntegrityError", MemeCoin |-> M]
    ELSE IF foreign_keys /\ ~IsNull(row.blockchain_id)
            /\ row.blockchain_id[1] \notin DOMAIN B
    THEN [error |-> "IntegrityError", MemeCoin |-> M]
    ELSE [error |-> NoError,
          MemeCoin |->
              [k \in DOMAIN M \cup {row.coin_id[1]} |->
                  IF k # row.coin_id[1] THEN M[k]
                  ELSE IF k \in DOMAIN M THEN OnConflictUpdate(M[k], row, now)
                  ELSE [nombre |-> row.nombre, simbolo |-> row.simbolo,
                        precio_usd |-> row.precio_usd,
                        market_cap_usd |-> row.market_cap_usd,
                        volumen_24h |-> row.volumen_24h,
                        ultima_actualizacion |-> Some(now),
                        blockchain_origen_id |-> row.blockchain_id]]]

\* for _, row in df.iterrows(): the two executes of each row, in input
\* order, inside the connection's open transaction; stops at the first
\* exception.  now is the value the next datetime.datetime.now() returns.
RECURSIVE iterrows(_, _, _, _, _, _)
iterrows(rows, exist, B, M, now, foreign_keys) ==
    IF rows = <<>>
    THEN [error |-> NoError, Blockchain |-> B, MemeCoin |-> M, clock |-> now]
    ELSE IF ~exist
    THEN [error |-> "OperationalError", Blockchain |-> B, MemeCoin |-> M,
          clock |-> now]
    ELSE LET b == sql_blockchain(B, Head(rows)) IN
         IF b.error # NoError
         THEN [error |-> b.error, Blockchain |-> B, MemeCoin |-> M, clock |-> now]
         ELSE LET m == sql_memecoin(b.Blockchain, M, Head(rows), now, foreign_keys) IN
              IF m.error # NoError
              THEN [error |-> m.error, Blockchain |-> b.Blockchain,
                    MemeCoin |-> M, clock |-> now + 1]
              ELSE iterrows(Tail(rows), exist, b.Blockchain, m.MemeCoin,
                            now + 1, foreign_keys)

\* faulty variant: the except clause does not call conn.rollback() and the writes
\* made before the exception are kept
upsert_body_no_rollback(df, reachable, exist, B, M, now) ==
    IF ~df.has_key_columns
    THEN [error |-> "KeyError", Blockchain |-> B, MemeCoin |-> M, clock |-> now]
    ELSE IF ~reachable
    THEN [error |-> "OperationalError", Blockchain |-> B, MemeCoin |-> M,
          clock |-> now]
    ELSE iterrows(dropna(df.rows), exist, B, M, now, TRUE)

\* the try body of upsert_memecoins_from_df up to conn.commit(), then the
\* except / finally: commit keeps the transaction's writes, rollback (or
\* closing a connection that never opened) keeps the tables as they were
upsert_body(df, reachable, exist, B, M, now) ==
    IF ~df.has_key_columns
    THEN [error |-> "KeyError", Blockchain |-> B, MemeCoin |-> M, clock |-> now]
    ELSE IF ~reachable
    THEN [error |-> "OperationalError", Blockchain |-> B, MemeCoin |-> M,
          clock |-> now]
    ELSE LET r == iterrows(dropna(df.rows), exist, B, M, now, TRUE) IN
         IF r.error = NoError THEN r
         ELSE [error |-> r.error, Blockchain |-> B, MemeCoin |-> M,
               clock |-> r.clock]

\* ------------------------------------------- generic statements by name
TableNames == {"Blockchain", "MemeCoin"}

PrimaryKey(t) == IF t = "Blockchain" THEN "blockchain_id" ELSE "coin_id"

Columns(t) ==
    IF t = "Blockchain"
    THEN {"blockchain_id", "nombre_blockchain", "simbolo_nativo"}
    ELSE {"coin_id", "nombre", "simbolo", "precio_usd", "market_cap_usd",
          "volumen_24h", "ultima_actualizacion", "blockchain_origen_id"}

NotNullColumns(t) ==
    IF t = "Blockchain" THEN {"nombre_blockchain"} ELSE {"nombre", "simbolo"}

TableOf(t, B, M) == IF t = "Blockchain" THEN B ELSE M

\* the row of table T stored under key k, primary key column included
RowOf(t, T, k) ==
    [c \in Columns(t) |-> IF c = PrimaryKey(t) THEN Some(k) ELSE T[k][c]]

\* SELECT * FROM {nom_table}
SelectAll(t, T) == { RowOf(t, T, k) : k \in DOMAIN T }

\* the raw condition texts callers pass, and what SQLite parses them to
Conditions ==
    {"", "1 = 1", "coin_id = 'bonk'", "blockchain_id = 'ethereum'", "simbolo ="}

ParseCondition(condition) ==
    IF condition = "1 = 1" THEN [ok |-> TRUE, all |-> TRUE]
    ELSE IF condition = "coin_id = 'bonk'"
    THEN [ok |-> TRUE, all |-> FALSE, col |-> "coin_id", val |-> "bonk"]
    ELSE IF condition = "blockchain_id = 'ethereum'"
    THEN [ok |-> TRUE, all |-> FALSE, col |-> "blockchain_id", val |-> "ethereum"]
    ELSE [ok |-> FALSE]

\* the statement cannot be prepared: no such table, no such column, or a
\* syntax error in the interpolated condition
CannotPrepare(t, exist, cols, condition) ==
    \/ ~exist
    \/ t \notin TableNames
    \/ ~(cols \subseteq Columns(t))
    \/ ~ParseCondition(condition).ok
    \/ /\ ~ParseCondition(condition).all
       /\ ParseCondition(condition).col \notin Columns(t)

\* the keys of the rows of T the WHERE clause selects (col = 'val' is
\* not true of a NULL column)
Matching(t, T, condition) ==
    LET w == ParseCondition(condition) IN
    { k \in DOMAIN T : w.all \/ RowOf(t, T, k)[w.col] = Some(w.val) }

\* UPDATE {nom_table} SET {key = ?, ...} WHERE {condition}; data never
\* names a primary key column
sql_update(t, data, condition, exist, B, M, foreign_keys) ==
    IF CannotPrepare(t, exist, DOMAIN data, condition)
    THEN [error |-> "OperationalError", Blockchain |-> B, MemeCoin |-> M]
    ELSE LET T == TableOf(t, B, M)
             hit == Matching(t, T, condition)
             T2 == [k \in DOMAIN T |->
                      IF k \in hit
                      THEN [c \in DOMAIN T[k] |->
                              IF c \in DOMAIN data THEN data[c] ELSE T[k][c]]
                      ELSE T[k]]
         IN
         IF hit # {} /\ \E c \in DOMAIN data \cap NotNullColumns(t) : IsNull(data[c])
         THEN [error |-> "IntegrityError", Blockchain |-> B, MemeCoin |-> M]
         ELSE IF /\ foreign_keys /\ hit # {} /\ t = "MemeCoin"
                 /\ "blockchain_origen_id" \in DOMAIN data
                 /\ ~IsNull(data["blockchain_origen_id"])
                 /\ data["blockchain_origen_id"][1] \notin DOMAIN B
         THEN [error |-> "IntegrityError", Blockchain |-> B, MemeCoin |-> M]
         ELSE IF t = "Blockchain"
         THEN [error |-> NoError, Blockchain |-> T2, MemeCoin |-> M]
         ELSE [error |-> NoError, Blockchain |-> B, MemeCoin |-> T2]

\* CONSTRAINT fk_blockchain ... ON DELETE SET NULL, applied by a
\* connection that enforces foreign keys when the keys in gone are deleted
OnDeleteSetNull(M, gone) ==
    [k \in DOMAIN M |->
        IF ~IsNull(M[k].blockchain_origen_id) /\ M[k].blockchain_origen_id[1] \in gone
        THEN [M[k] EXCEPT !.blockchain_origen_id = NULL]
        ELSE M[k]]

\* DELETE FROM {nom_table} WHERE {condition}
sql_delete(t, condition, exist, B, M, foreign_keys) ==
    IF CannotPrepare(t, exist, {}, condition)
    THEN [error |-> "OperationalError", Blockchain |-> B, MemeCoin |-> M]
    ELSE LET T == TableOf(t, B, M)
             hit == Matching(t, T, condition)
             T2 == [k \in DOMAIN T \ hit |-> T[k]]
         IN
         IF t = "Blockchain"
         THEN [error |-> NoError, Blockchain |-> T2,
               MemeCoin |-> IF foreign_keys THEN OnDeleteSetNull(M, hit) ELSE M]
         ELSE [error |-> NoError, Blockchain |-> B, MemeCoin |-> T2]

\* len(x) > 0 for the str / dict arguments; len(None) raises TypeError
NoLen(x) == x = PyNone

\* the try body of update_data; an exception before commit leaves the
\* tables as they were (the connection is closed uncommitted)
update_body(nom_table, data, condition, reachable, exist, B, M) ==
    IF NoLen(nom_table)
    THEN [error |-> "TypeError", Blockchain |-> B, MemeCoin |-> M]
    ELSE IF nom_table = "" \/ DOMAIN data = {} \/ condition = ""
    THEN [error |-> NoError, Blockchain |-> B, MemeCoin |-> M]
    ELSE IF ~reachable
    THEN [error |-> "OperationalError", Blockchain |-> B, MemeCoin |-> M]
    ELSE sql_update(nom_table, data, condition, exist, B, M,
                    SQLITE_DEFAULT_FOREIGN_KEYS)

\* the try body of delete_data
delete_body(nom_table, condition, reachable, exist, B, M) ==
    IF NoLen(nom_table)
    THEN [error |-> "TypeError", Blockchain |-> B, MemeCoin |-> M]
    ELSE IF nom_table = "" \/ condition = ""
    THEN [error |-> NoError, Blockchain |-> B, MemeCoin |-> M]
    ELSE IF ~reachable
    THEN [error |-> "OperationalError", Blockchain |-> B, MemeCoin |-> M]
    ELSE sql_delete(nom_table, condition, exist, B, M,
                    SQLITE_DEFAULT_FOREIGN_KEYS)

\* the try body of read_data; df stays the empty DataFrame unless the
\* query ran
read_body(nom_table, reachable, exist, B, M) ==
    IF NoLen(nom_table) THEN [error |-> "TypeError", df |-> {}]
    ELSE IF nom_table = "" THEN [error |-> NoError, df |-> {}]
    ELSE IF ~reachable THEN [error |-> "OperationalError", df |-> {}]
    ELSE IF ~exist \/ nom_table \notin TableNames
    THEN [error |-> "DatabaseError", df |-> {}]
    ELSE [error |-> NoError, df |-> SelectAll(nom_table, TableOf(nom_table, B, M))]

\* ------------------------------------------------------- joined report
\* MemeCoin m JOIN Blockchain b ON m.blockchain_origen_id = b.blockchain_id
Joined(B, M) ==
    { k \in DOMAIN M :
        /\ ~IsNull(M[k].blockchain_origen_id)
        /\ M[k].blockchain_origen_id[1] \in DOMAIN B }

\* the SELECT list of the report
ReportRow(B, M, k) ==
    [Meme_Coin |-> M[k].nombre, simbolo |-> M[k].simbolo,
     precio_usd |-> M[k].precio_usd, market_cap_usd |-> M[k].market_cap_usd,
     Ecosistema |-> B[M[k].blockchain_origen_id[1]].nombre_blockchain,
     ultima_actualizacion |-> M[k].ultima_actualizacion]

\* faulty variant: ORDER BY m.market_cap_usd ASC (NULL first)
AscBefore(x, y) == ~IsNull(y) /\ (IsNull(x) \/ x[1] < y[1])

\* x sorts strictly before y under ORDER BY ... DESC: NULL is SQLite's
\* smallest value and so comes last
DescBefore(x, y) == ~IsNull(x) /\ (IsNull(y) \/ x[1] > y[1])

\* the orders ORDER BY m.market_cap_usd DESC allows for the joined rows
\* (rows with equal keys come in either order)
OrderByMarketCapDesc(M, S) ==
    { o \in [1..Cardinality(S) -> S] :
        /\ \A i, j \in DOMAIN o : i # j => o[i] # o[j]
        /\ \A i, j \in DOMAIN o :
              i < j => ~DescBefore(M[o[j]].market_cap_usd, M[o[i]].market_cap_usd) }

\* ---------------------------------------------------------------- state
\* pre and last observe one call: the tables as the call found them, its
\* arguments, the exception its body raised, whether one left the method,
\* and what it returned.  NoCall: the caller is between two calls.
NoCall == [op |-> "none", error |-> NoError, propagated |-> FALSE]

Ready == last = NoCall

Snapshot == [Blockchain |-> Blockchain, MemeCoin |-> MemeCoin, clock |-> clock]

Init ==
    /\ tablesExist \in BOOLEAN
    /\ Blockchain = EmptyTable
    /\ MemeCoin = EmptyTable
    /\ clock = 0
    /\ pre = [Blockchain |-> EmptyTable, MemeCoin |-> EmptyTable, clock |-> 0]
    /\ last = NoCall

\* setup_database(): CREATE TABLE IF NOT EXISTS for both tables
setup_database ==
    /\ Ready
    /\ \E reachable \in BOOLEAN :
           LET e == IF reachable THEN NoError ELSE "OperationalError" IN
           /\ tablesExist' = (tablesExist \/ reachable)
           /\ pre' = Snapshot
           /\ last' = [op |-> "setup_database", reachable |-> reachable, error |-> e,
                       propagated |-> Propagates(e)]
           /\ UNCHANGED <<Blockchain, MemeCoin, clock>>

\* the calls of upsert_memecoins_from_df: every DataFrame on a store that
\* can be opened; on one that cannot, where sqlite3.connect raises before
\* any record is read, the DataFrames of at most one record
UpsertCalls ==
    { c \in [df : DataFrames, reachable : BOOLEAN] :
        c.reachable \/ Len(c.df.rows) <= 1 }

upsert_memecoins_from_df ==
    /\ Ready
    /\ \E call \in UpsertCalls :
           LET df == call.df
               reachable == call.reachable
               r == upsert_body(df, reachable, tablesExist, Blockchain, MemeCoin, clock)
           IN
           /\ r.clock <= MaxClock
           /\ Blockchain' = r.Blockchain
           /\ MemeCoin' = r.MemeCoin
           /\ clock' = r.clock
           /\ pre' = Snapshot
           /\ last' = [op |-> "upsert_memecoins_from_df", df |-> df,
                       reachable |-> reachable,
                       error |-> r.error, propagated |-> Propagates(r.error)]
           /\ UNCHANGED tablesExist

NomTables == {PyNone, "", "Blockchain", "MemeCoin", "NoSuchTable"}

\* the column -> value mappings passed to update_data
DataMappings ==
    { EmptyTable,
      [blockchain_origen_id |-> Some("solana")],
      [blockchain_origen_id |-> NULL],
      [nombre |-> NULL] }

\* the calls of update_data: every mapping and condition on the two tables
\* of a store that can be opened; for the calls that fail before the
\* statement runs (no table of that name, no connection), the arguments
\* that decide between the no-op and the failure
UpdateCalls ==
    { c \in [nom_table : NomTables, data : DataMappings, condition : Conditions,
             reachable : BOOLEAN] :
        \/ c.reachable /\ c.nom_table \in TableNames
        \/ /\ c.data \in {EmptyTable, [blockchain_origen_id |-> NULL]}
           /\ c.condition \in {"", "1 = 1"} }

\* the calls of delete_data, chosen as those of update_data
DeleteCalls ==
    { c \in [nom_table : NomTables, condition : Conditions, reachable : BOOLEAN] :
        \/ c.reachable /\ c.nom_table \in TableNames
        \/ c.condition \in {"", "1 = 1"} }

read_data ==
    /\ Ready
    /\ \E nom_table \in NomTables, reachable \in BOOLEAN :
           LET r == read_body(nom_table, reachable, tablesExist, Blockchain, MemeCoin) IN
           /\ pre' = Snapshot
           /\ last' = [op |-> "read_data", nom_table |-> nom_table,
                       reachable |-> reachable, df |-> r.df,
                       error |-> r.error, propagated |-> Propagates(r.error)]
           /\ UNCHANGED <<tablesExist, Blockchain, MemeCoin, clock>>

update_data ==
    /\ Ready
    /\ \E call \in UpdateCalls :
           LET nom_table == call.nom_table
               data == call.data
               condition == call.condition
               reachable == call.reachable
               r == update_body(nom_table, data, condition, reachable, tablesExist,
                                Blockchain, MemeCoin)
           IN
           /\ Blockchain' = r.Blockchain
           /\ MemeCoin' = r.MemeCoin
           /\ pre' = Snapshot
           /\ last' = [op |-> "update_data", nom_table |-> nom_table, data |-> data,
                       condition |-> condition, reachable |-> reachable,
                       error |-> r.error,
                       propagated |-> Propagates(r.error)]
           /\ UNCHANGED <<tablesExist, clock>>

delete_data ==
    /\ Ready
    /\ \E call \in DeleteCalls :
           LET nom_table == call.nom_table
               condition == call.condition
               reachable == call.reachable
               r == delete_body(nom_table, condition, reachable, tablesExist,
                                Blockchain, MemeCoin)
           IN
           /\ Blockchain' = r.Blockchain
           /\ MemeCoin' = r.MemeCoin
           /\ pre' = Snapshot
           /\ last' = [op |-> "delete_data", nom_table |-> nom_table,
                       condition |-> condition, reachable |-> reachable,
                       error |-> r.error,
                       propagated |-> Propagates(r.error)]
           /\ UNCHANGED <<tablesExist, clock>>

get_memecoins_with_blockchain_info ==
    /\ Ready
    /\ \E reachable \in BOOLEAN :
           \E o \in IF reachable /\ tablesExist
                     THEN OrderByMarketCapDesc(MemeCoin, Joined(Blockchain, MemeCoin))
                     ELSE {<<>>} :
               LET e == IF ~reachable THEN "OperationalError"
                        ELSE IF ~tablesExist THEN "DatabaseError" ELSE NoError IN
               /\ pre' = Snapshot
               /\ last' = [op |-> "get_memecoins_with_blockchain_info",
                           reachable |-> reachable,
                           df |-> [i \in DOMAIN o |-> ReportRow(Blockchain, MemeCoin, o[i])],
                           error |-> e, propagated |-> Propagates(e)]
               /\ UNCHANGED <<tablesExist, Blockchain, MemeCoin, clock>>

\* the caller is done with the returned value and goes on to its next call
next_call ==
    /\ ~Ready
    /\ pre' = Snapshot
    /\ last' = NoCall
    /\ UNCHANGED <<tablesExist, Blockchain, MemeCoin, clock>>

Next ==
    \/ setup_database
    \/ upsert_memecoins_from_df
    \/ read_data
    \/ update_data
    \/ delete_data
    \/ get_memecoins_with_blockchain_info
    \/ next_call

Spec == Init /\ [][Next]_vars
\* ------------------------------------------------------------ properties
Upserted == last.op = "upsert_memecoins_from_df"

\* the batch was processed and conn.commit() ran
Committed == Upserted /\ last.error = NoError

\* a record that carries both its own key and its ecosystem's key
HasKeys(r) == ~IsNull(r.coin_id) /\ ~IsNull(r.blockchain_id)

\* the records of the last batch that carry both keys, in input order
Surviving == SelectSeq(last.df.rows, HasKeys)

SurvivingCoins == { Surviving[i].coin_id[1] : i \in DOMAIN Surviving }

SurvivingEcosystems == { Surviving[i].blockchain_id[1] : i \in DOMAIN Surviving }

\* the last surviving record, in input order, that names coin k
LastRecordOf(k) ==
    Surviving[CHOOSE i \in DOMAIN Surviving :
                 /\ Surviving[i].coin_id[1] = k
                 /\ \A j \in DOMAIN Surviving : Surviving[j].coin_id[1] = k => j <= i]

\* the first surviving record, in input order, that names ecosystem e
FirstRecordOf(e) ==
    Surviving[CHOOSE i \in DOMAIN Surviving :
                 /\ Surviving[i].blockchain_id[1] = e
                 /\ \A j \in DOMAIN Surviving : Surviving[j].blockchain_id[1] = e => i <= j]

\* a record that violates no NOT NULL constraint
ValidRecord(r) ==
    ~IsNull(r.nombre) /\ ~IsNull(r.simbolo) /\ ~IsNull(r.blockchain_nombre)

\* the MemeCoin rows the last call created or changed
Written ==
    { k \in DOMAIN MemeCoin : k \notin DOMAIN pre.MemeCoin \/ MemeCoin[k] # pre.MemeCoin[k] }

\* a MemeCoin table without its ultima_actualizacion column
WithoutTimestamp(M) ==
    [k \in DOMAIN M |-> [c \in DOMAIN M[k] \ {"ultima_actualizacion"} |-> M[k][c]]]

\* the last call deleted, from "Blockchain", these rows
DeletedEcosystems ==
    IF last.op = "delete_data" /\ last.error = NoError /\ last.nom_table = "Blockchain"
       /\ last.condition # ""
    THEN Matching("Blockchain", pre.Blockchain, last.condition)
    ELSE {}

\* the tokens that referenced, before the last call, an ecosystem in E
Referencing(E) ==
    { k \in DOMAIN pre.MemeCoin :
        /\ ~IsNull(pre.MemeCoin[k].blockchain_origen_id)
        /\ pre.MemeCoin[k].blockchain_origen_id[1] \in E }

\* C1: after delete_data on "Blockchain" removed an ecosystem row, every
\* token that referenced it is still in "MemeCoin" and its
\* blockchain_origen_id is NULL.
C1_DeleteEcosystemSetsNull ==
    \A k \in Referencing(DeletedEcosystems) :
        k \in DOMAIN MemeCoin /\ IsNull(MemeCoin[k].blockchain_origen_id)

\* C2: a batch that raised leaves both tables exactly as the call found
\* them: the writes of the records before the failing one are not kept.
C2_FailedBatchRolledBack ==
    (Upserted /\ last.error # NoError) =>
        (Blockchain = pre.Blockchain /\ MemeCoin = pre.MemeCoin)

\* C2 witness: on a store holding a committed token, a batch whose first
\* record was written failed with a constraint violation at a later record
C2_Witness ==
    /\ Upserted
    /\ last.error = "IntegrityError"
    /\ pre.MemeCoin # EmptyTable
    /\ Len(Surviving) >= 2
    /\ LET first == iterrows(<<Head(Surviving)>>, TRUE, pre.Blockchain,
                             pre.MemeCoin, pre.clock, TRUE) IN
       first.error = NoError /\ first.MemeCoin # pre.MemeCoin

\* the batch of the last call has exactly one record without coin_id or
\* blockchain_id; the others are valid and name distinct coins
OneMalformedRecord ==
    /\ Upserted
    /\ last.df.has_key_columns /\ last.reachable /\ tablesExist
    /\ Len(last.df.rows) = Len(Surviving) + 1
    /\ \A i \in DOMAIN Surviving : ValidRecord(Surviving[i])
    /\ \A i, j \in DOMAIN Surviving :
          i # j => Surviving[i].coin_id # Surviving[j].coin_id

\* C3: a batch with exactly one record lacking a key, the rest valid and
\* distinct, commits without error, writes exactly batchSize - 1 token
\* rows (those of the other records), and creates ecosystem rows only
\* for the other records.
C3_MalformedRecordDropped ==
    OneMalformedRecord =>
        /\ last.error = NoError
        /\ Cardinality(Written) = Len(last.df.rows) - 1
        /\ Written = SurvivingCoins
        /\ DOMAIN Blockchain = DOMAIN pre.Blockchain \cup SurvivingEcosystems

\* C3 witness: such a batch of two or more records, whose dropped record
\* names an ecosystem that no row exists for
C3_Witness ==
    /\ OneMalformedRecord
    /\ Len(last.df.rows) >= 2
    /\ \E i \in DOMAIN last.df.rows :
          /\ IsNull(last.df.rows[i].coin_id)
          /\ ~IsNull(last.df.rows[i].blockchain_id)
          /\ last.df.rows[i].blockchain_id[1] \notin DOMAIN Blockchain

\* C4: an upsert never changes the name of an ecosystem row that existed
\* before the call, and a row the batch creates keeps the name of the
\* first record that named its key.
C4_EcosystemNameFirstWriterWins ==
    Upserted =>
        /\ \A e \in DOMAIN pre.Blockchain :
              /\ e \in DOMAIN Blockchain
              /\ Blockchain[e].nombre_blockchain = pre.Blockchain[e].nombre_blockchain
        /\ \A e \in DOMAIN Blockchain \ DOMAIN pre.Blockchain :
              Blockchain[e].nombre_blockchain = FirstRecordOf(e).blockchain_nombre

\* C4 witness: a committed batch had a record naming an existing
\* ecosystem key with another display name
C4_Witness ==
    /\ Committed
    /\ \E i \in DOMAIN Surviving :
          /\ Surviving[i].blockchain_id[1] \in DOMAIN pre.Blockchain
          /\ Surviving[i].blockchain_nombre
                # pre.Blockchain[Surviving[i].blockchain_id[1]].nombre_blockchain

\* C5: after a committed batch, a token that existed before and that the
\* batch names has the price, market cap, volume and ecosystem reference
\* of the last record naming it, a timestamp taken during the call, and
\* the name and symbol it had before.
C5_TokenConflictPolicy ==
    Committed =>
        \A k \in DOMAIN pre.MemeCoin \cap SurvivingCoins :
            /\ MemeCoin[k].precio_usd = LastRecordOf(k).precio_usd
            /\ MemeCoin[k].market_cap_usd = LastRecordOf(k).market_cap_usd
            /\ MemeCoin[k].volumen_24h = LastRecordOf(k).volumen_24h
            /\ MemeCoin[k].blockchain_origen_id = LastRecordOf(k).blockchain_id
            /\ ~IsNull(MemeCoin[k].ultima_actualizacion)
            /\ MemeCoin[k].ultima_actualizacion[1] >= pre.clock
            /\ MemeCoin[k].ultima_actualizacion[1] < clock
            /\ MemeCoin[k].nombre = pre.MemeCoin[k].nombre
            /\ MemeCoin[k].simbolo = pre.MemeCoin[k].simbolo

\* C5 witness: a committed batch named an existing token with another
\* name, symbol and price
C5_Witness ==
    /\ Committed
    /\ \E k \in DOMAIN pre.MemeCoin \cap SurvivingCoins :
          /\ LastRecordOf(k).nombre # pre.MemeCoin[k].nombre
          /\ LastRecordOf(k).simbolo # pre.MemeCoin[k].simbolo
          /\ LastRecordOf(k).precio_usd # pre.MemeCoin[k].precio_usd

\* the same batch applied once more to the tables as they are now
Again == upsert_body(last.df, TRUE, tablesExist, Blockchain, MemeCoin, clock)

\* C6: applying a committed batch a second time commits too and gives the
\* same "Blockchain" table and the same "MemeCoin" rows in every column
\* but ultima_actualizacion.
C6_UpsertIdempotentOnContent ==
    Committed =>
        /\ Again.error = NoError
        /\ Again.Blockchain = Blockchain
        /\ WithoutTimestamp(Again.MemeCoin) = WithoutTimestamp(MemeCoin)

\* C6 witness: a committed batch changed the metrics of an existing token,
\* and applying it again changes timestamps
C6_Witness ==
    /\ Committed
    /\ \E k \in DOMAIN pre.MemeCoin \cap SurvivingCoins :
          pre.MemeCoin[k].market_cap_usd # MemeCoin[k].market_cap_usd
    /\ Again.MemeCoin # MemeCoin

Reported == last.op = "get_memecoins_with_blockchain_info" /\ last.error = NoError

\* the tokens whose ecosystem reference is the key of an ecosystem row
Matched ==
    { k \in DOMAIN MemeCoin :
        \E e \in DOMAIN Blockchain : MemeCoin[k].blockchain_origen_id = Some(e) }

\* C7: the report has one row per token whose reference matches an
\* ecosystem row and no other row (so none for a token without
\* reference), and consecutive rows with market caps are in descending
\* order of market cap.
C7_JoinedReport ==
    Reported =>
        /\ Len(last.df) = Cardinality(Matched)
        /\ \A k \in Matched :
              Cardinality({ i \in DOMAIN last.df :
                              last.df[i] = ReportRow(Blockchain, MemeCoin, k) })
              = Cardinality({ j \in Matched :
                                ReportRow(Blockchain, MemeCoin, j)
                                  = ReportRow(Blockchain, MemeCoin, k) })
        /\ \A i \in DOMAIN last.df :
              (i + 1 \in DOMAIN last.df
                 /\ ~IsNull(last.df[i].market_cap_usd)
                 /\ ~IsNull(last.df[i + 1].market_cap_usd))
              => last.df[i].market_cap_usd[1] >= last.df[i + 1].market_cap_usd[1]

\* C7 witness: a report of two rows with different market caps while a
\* token without ecosystem reference is stored
C7_Witness ==
    /\ Reported
    /\ Len(last.df) = 2
    /\ ~IsNull(last.df[2].market_cap_usd)
    /\ last.df[1].market_cap_usd # last.df[2].market_cap_usd
    /\ \E k \in DOMAIN MemeCoin : IsNull(MemeCoin[k].blockchain_origen_id)

\* the last call was update_data or delete_data with a required argument
\* empty
RequiredInputEmpty ==
    \/ /\ last.op = "update_data"
       /\ (last.nom_table = "" \/ DOMAIN last.data = {} \/ last.condition = "")
    \/ /\ last.op = "delete_data"
       /\ (last.nom_table = "" \/ last.condition = "")

\* C8: no call lets an exception out; a read whose body raised returns an
\* empty result; update_data / delete_data with an empty required
\* argument leave both tables as they were.
C8_NoExceptionPropagates ==
    /\ ~last.propagated
    /\ (last.op = "read_data" /\ last.error # NoError) => last.df = {}
    /\ (last.op = "get_memecoins_with_blockchain_info" /\ last.error # NoError)
          => last.df = <<>>
    /\ RequiredInputEmpty => (Blockchain = pre.Blockchain /\ MemeCoin = pre.MemeCoin)

\* C8 witness: update_data hit a constraint violation on stored rows
C8_Witness ==
    /\ last.op = "update_data"
    /\ last.error = "IntegrityError"
    /\ ~last.propagated
    /\ MemeCoin # EmptyTable

\* C9: a committed batch leaves every token it does not name as it was, in
\* all columns, and leaves every ecosystem row that existed as it was.
C9_UpsertFrame ==
    Committed =>
        /\ \A k \in DOMAIN pre.MemeCoin \ SurvivingCoins :
              k \in DOMAIN MemeCoin /\ MemeCoin[k] = pre.MemeCoin[k]
        /\ \A e \in DOMAIN pre.Blockchain :
              e \in DOMAIN Blockchain /\ Blockchain[e] = pre.Blockchain[e]

\* C9 witness: a committed batch wrote a token while another token, not
\* named by the batch, was stored
C9_Witness ==
    /\ Committed
    /\ Written # {}
    /\ DOMAIN pre.MemeCoin \ SurvivingCoins # {}
    /\ DOMAIN pre.Blockchain # {}

\* C10: every token whose blockchain_origen_id is not NULL references the
\* key of a row of "Blockchain".
C10_NoDanglingReference ==
    \A k \in DOMAIN MemeCoin :
        IsNull(MemeCoin[k].blockchain_origen_id)
        \/ MemeCoin[k].blockchain_origen_id[1] \in DOMAIN Blockchain
====
